---- MODULE Spec2Model ----
(***************************************************************************)
(* Model of the korail-server reservation endpoint.                        *)
(*                                                                         *)
(*   src/app.py          reserve_ticket: POST /reserve                     *)
(*   src/sms_service.py  send_sms: the notification sender                 *)
(*                                                                         *)
(* The booking client (korail2) and the messaging gateway (solapi) are     *)
(* external: every call to them may return any value of its result type    *)
(* or raise.  An optional (None-able) Python value v is the sequence <<>>  *)
(* for None and <<v>> otherwise.  A formatted string is the sequence of    *)
(* its literal and interpolated fragments.  Non-ASCII literals of the      *)
(* source are transliterated.                                              *)
(***************************************************************************)
EXTENDS Integers, Sequences, FiniteSets, TLC

\* ------------------------------------------------------------------ bounds
\* Requests served by the process in one behaviour.
MaxRequests == 2
\* Longest candidate list a search returns.
MaxTrains == 2

\* ------------------------------------------------------------ Python values
None == <<>>
Some(v) == <<v>>

\* str(v) as an f-string interpolates it: None is rendered as the text "None".
Str(v) == IF v = None THEN "None" ELSE v[1]

\* ------------------------------------------------------------- environment
\* os.getenv(name): the value, or None when the variable is not set.
Envs ==
    [KORAIL_USERNAME : {None, Some("korail_id")},
     KORAIL_PASSWORD : {None, Some("korail_pw")},
     NOTIFICATION_PHONE : {None, Some("01012345678")}]

\* ---------------------------------------------------------------- requests
\* The JSON body of POST /reserve.  passengers is either a JSON integer
\* (isint, val) or a value pydantic cannot read as an int.
RawPassengers ==
    [isint : {TRUE}, val : {-1, 0, 1, 2}] \cup [isint : {FALSE}, val : {0}]

RawRequests ==
    [dep : {"Seoul"}, arr : {"Busan"}, date : {"20250520"}, time : {"090000"},
     passengers : RawPassengers]

\* ReserveRequest: a BaseModel with dep, arr, date, time : str and
\* passengers : int.  The only constraint on passengers is its type.
ReserveRequestValid(raw) == raw.passengers.isint

ReserveRequest(raw) ==
    [dep |-> raw.dep, arr |-> raw.arr, date |-> raw.date, time |-> raw.time,
     passengers |-> raw.passengers.val]

\* [AdultPassenger(data.passengers)]: the count is taken as it is.
Passengers(data) == << [type |-> "AdultPassenger", count |-> data.passengers] >>

\* ---------------------------------------------------------- booking client
\* What Korail(...) may raise (its constructor logs in).
LoginErrors == {"LoginError"}
\* What search_train and reserve may raise.
ProviderErrors == {"NoResultsError", "NeedToLoginError", "SoldOutError"}

Trains ==
    { [train_no |-> "123", dep_time |-> "09:00", arr_time |-> "11:30"],
      [train_no |-> "101", dep_time |-> "09:30", arr_time |-> "12:10"] }

\* The candidate lists a search may return: [] up to MaxTrains candidates.
RECURSIVE SeqsUpTo(_, _)
SeqsUpTo(S, n) ==
    IF n = 0 THEN { <<>> }
    ELSE LET shorter == SeqsUpTo(S, n - 1)
         IN  shorter \cup { Append(s, x) : s \in shorter, x \in S }

TrainLists == SeqsUpTo(Trains, MaxTrains)

\* The reservations reserve(train, ...) may return: the train's own number
\* and times, a car, and a seat number that is None on open seating.
SeatsOf(train) ==
    [train_no : {train.train_no}, seat_no : {None, Some("5A")}, car_no : {"8"},
     dep_time : {train.dep_time}, arr_time : {train.arr_time}]

\* ------------------------------------------------------- messaging gateway
GatewayErrors == {"ConnectionError", "ValidationError"}

\* One run of the gateway inside send_sms: the stage that raises (the
\* service constructor, the RequestMessage constructor, the send), or a
\* delivery receipt.
GatewayBehaviours ==
    [kind : {"init_raises", "message_raises", "send_raises"},
     exc : GatewayErrors, group_id : {None}, registered_success : {0}]
    \cup
    [kind : {"receipt"}, exc : {"none"}, group_id : {Some("G1")},
     registered_success : {0, 1}]

\* except Exception as e: every gateway error is an Exception.
CatchesNarrow(e) == e = "ConnectionError"
Catches(e) == e \in GatewayErrors

\* return {"success": True, "group_id": ..., "sent_count": ...}
SmsSuccess(gw) ==
    [success |-> TRUE, group_id |-> gw.group_id,
     sent_count |-> Some(gw.registered_success), error |-> None]

\* return {"success": False, "error": str(e)}
SmsFailureFlipped(e) ==
    [success |-> TRUE, group_id |-> None, sent_count |-> None, error |-> Some(e)]
SmsFailure(e) ==
    [success |-> FALSE, group_id |-> None, sent_count |-> None, error |-> Some(e)]

\* send_sms(to_phone, text) against gateway behaviour gw: what it returns,
\* or the exception that leaves it.
send_sms(to_phone, text, gw) ==
    IF gw.kind = "receipt"
    THEN [raised |-> None, value |-> Some(SmsSuccess(gw))]
    ELSE IF Catches(gw.exc)
         THEN [raised |-> None, value |-> Some(SmsFailure(gw.exc))]
         ELSE [raised |-> Some(gw.exc), value |-> None]

\* ---------------------------------------------------------------- responses
\* TicketResponse: every field but status defaults to None, and (the model
\* class is written in the pydantic 1 style, class Config / schema_extra) a
\* field declared "str = None" accepts None.
TicketResponse(status, train_no, seat_no, car_no, dep_time, arr_time, message) ==
    [status |-> status, train_no |-> train_no, seat_no |-> seat_no,
     car_no |-> car_no, dep_time |-> dep_time, arr_time |-> arr_time,
     message |-> message]

NoTrainMessage == "no train available for reservation"

\* TicketResponse(status="fail", message=...)
NotFoundResponseAsSuccess ==
    TicketResponse("success", None, None, None, None, None, Some(NoTrainMessage))
NotFoundResponse ==
    TicketResponse("fail", None, None, None, None, None, Some(NoTrainMessage))

\* TicketResponse(status="success", train_no=seat.train_no, ...)
SuccessResponseSwapped(seat) ==
    TicketResponse("success", Some(seat.train_no), seat.seat_no,
                   Some(seat.car_no), Some(seat.arr_time), Some(seat.dep_time), None)
SuccessResponse(seat) ==
    TicketResponse("success", Some(seat.train_no), seat.seat_no,
                   Some(seat.car_no), Some(seat.dep_time), Some(seat.arr_time), None)

\* The confirmation text, fragment by fragment.
FormatMessage(data, seat) ==
    << "[Korail reservation complete]\n", data.dep, " -> ", data.arr,
       "\ntrain ", seat.train_no, ", seat ", Str(seat.seat_no), ", ",
       seat.dep_time, " departure" >>

\* What the client of the endpoint gets.
NoResponse == [outcome |-> "none", body |-> None, exc |-> None]
\* the framework refuses the body (422) before the handler runs
Rejected == [outcome |-> "rejected", body |-> None, exc |-> None]
\* the handler returns a TicketResponse (200)
Returned(body) == [outcome |-> "returned", body |-> Some(body), exc |-> None]
\* an exception leaves the handler (internal server error)
Escaped(e) == [outcome |-> "raised", body |-> None, exc |-> Some(e)]

\* ------------------------------------------------------------------- state
VARIABLES
    env,        \* the process environment
    nreq,       \* requests received so far
    pc,         \* where the handler of the current request stands
    raw,        \* the body of the current request
    data,       \* the validated ReserveRequest
    psgrs,      \* the passenger list handed to search_train and reserve
    trains,     \* what search_train returned
    seat,       \* what reserve returned
    error,      \* the exception an external call raised, and where
    gw,         \* how the gateway behaved inside send_sms
    sms_to,     \* send_sms's to_phone
    sms_text,   \* send_sms's text
    sms_result, \* what send_sms returned or raised
    calls,      \* the external calls issued for the current request, in order
    response    \* the response to the current request

vars == << env, nreq, pc, raw, data, psgrs, trains, seat, error, gw, sms_to, sms_text,
           sms_result, calls, response >>

Init ==
    /\ env \in Envs
    /\ nreq = 0
    /\ pc = "idle"
    /\ raw = None
    /\ data = None
    /\ psgrs = None
    /\ trains = None
    /\ seat = None
    /\ error = None
    /\ gw = None
    /\ sms_to = None
    /\ sms_text = None
    /\ sms_result = None
    /\ calls = <<>>
    /\ response = NoResponse

\* POST /reserve arrives; the framework builds ReserveRequest from the body
\* and calls reserve_ticket, or refuses the body.
Receive ==
    /\ pc \in {"idle", "done"}
    /\ nreq < MaxRequests
    /\ \E r \in RawRequests :
        /\ raw' = Some(r)
        /\ IF ReserveRequestValid(r)
           THEN /\ data' = Some(ReserveRequest(r))
                /\ pc' = "korail"
                /\ response' = NoResponse
           ELSE /\ data' = None
                /\ pc' = "done"
                /\ response' = Rejected
    /\ nreq' = nreq + 1
    /\ psgrs' = None
    /\ trains' = None
    /\ seat' = None
    /\ error' = None
    /\ gw' = None
    /\ sms_to' = None
    /\ sms_text' = None
    /\ sms_result' = None
    /\ calls' = <<>>
    /\ UNCHANGED env

\* korail = Korail(os.getenv("KORAIL_USERNAME"), os.getenv("KORAIL_PASSWORD"))
\* psgrs = [AdultPassenger(data.passengers)]
KorailInit ==
    /\ pc = "korail"
    /\ \/ /\ psgrs' = Some(Passengers(data[1]))
          /\ pc' = "search"
          /\ UNCHANGED << error, response >>
       \/ \E e \in LoginErrors :
            /\ error' = Some([at |-> "korail", exc |-> e])
            /\ response' = Escaped(e)
            /\ pc' = "done"
            /\ UNCHANGED psgrs
    /\ UNCHANGED << env, nreq, raw, data, trains, seat, gw, sms_to, sms_text,
                    sms_result, calls >>

\* trains = korail.search_train(..., passengers=psgrs, include_no_seats=False)
SearchTrain ==
    /\ pc = "search"
    /\ calls' = Append(calls, "search")
    /\ \/ \E ts \in TrainLists :
            /\ trains' = Some(ts)
            /\ pc' = "check"
            /\ UNCHANGED << error, response >>
       \/ \E e \in ProviderErrors :
            /\ error' = Some([at |-> "search", exc |-> e])
            /\ response' = Escaped(e)
            /\ pc' = "done"
            /\ UNCHANGED trains
    /\ UNCHANGED << env, nreq, raw, data, psgrs, seat, gw, sms_to, sms_text, sms_result >>

\* if not trains: return TicketResponse(status="fail", message=...)
CheckTrains ==
    /\ pc = "check"
    /\ IF trains[1] = <<>>
       THEN /\ response' = Returned(NotFoundResponse)
            /\ pc' = "done"
       ELSE /\ pc' = "reserve"
            /\ UNCHANGED response
    /\ UNCHANGED << env, nreq, raw, data, psgrs, trains, seat, error, gw, sms_to,
                    sms_text, sms_result, calls >>

\* seat = korail.reserve(trains[0], psgrs, option=ReserveOption.GENERAL_ONLY)
ReserveRetrying ==
    /\ pc = "reserve"
    /\ calls' = Append(calls, "reserve")
    /\ \/ \E s \in SeatsOf(trains[1][1]) :
            /\ seat' = Some(s)
            /\ pc' = "notify"
            /\ UNCHANGED << error, response >>
       \/ \E e \in ProviderErrors :
            /\ error' = Some([at |-> "reserve", exc |-> e])
            /\ IF Len(calls) < 2
               THEN pc' = "reserve" /\ UNCHANGED response
               ELSE pc' = "done" /\ response' = Escaped(e)
            /\ UNCHANGED seat
    /\ UNCHANGED << env, nreq, raw, data, psgrs, trains, gw, sms_to, sms_text, sms_result >>
Reserve ==
    /\ pc = "reserve"
    /\ calls' = Append(calls, "reserve")
    /\ \/ \E s \in SeatsOf(trains[1][1]) :
            /\ seat' = Some(s)
            /\ pc' = "notify"
            /\ UNCHANGED << error, response >>
       \/ \E e \in ProviderErrors :
            /\ error' = Some([at |-> "reserve", exc |-> e])
            /\ response' = Escaped(e)
            /\ pc' = "done"
            /\ UNCHANGED seat
    /\ UNCHANGED << env, nreq, raw, data, psgrs, trains, gw, sms_to, sms_text, sms_result >>

\* message = f"..."; send_sms(os.getenv("NOTIFICATION_PHONE"), message)
Notify ==
    /\ pc = "notify"
    /\ calls' = Append(calls, "notify")
    /\ sms_to' = Some(env.NOTIFICATION_PHONE)
    /\ sms_text' = Some(FormatMessage(data[1], seat[1]))
    /\ \E g \in GatewayBehaviours :
        LET r == send_sms(env.NOTIFICATION_PHONE, FormatMessage(data[1], seat[1]), g)
        IN  /\ gw' = Some(g)
            /\ sms_result' = Some(r)
            /\ IF r.raised = None
               THEN /\ pc' = "respond"
                    /\ UNCHANGED << error, response >>
               ELSE /\ error' = Some([at |-> "notify", exc |-> r.raised[1]])
                    /\ response' = Escaped(r.raised[1])
                    /\ pc' = "done"
    /\ UNCHANGED << env, nreq, raw, data, psgrs, trains, seat >>

\* return TicketResponse(status="success", ...)
Respond ==
    /\ pc = "respond"
    /\ response' = Returned(SuccessResponse(seat[1]))
    /\ pc' = "done"
    /\ UNCHANGED << env, nreq, raw, data, psgrs, trains, seat, error, gw, sms_to,
                    sms_text, sms_result, calls >>

Next ==
    \/ Receive
    \/ KorailInit
    \/ SearchTrain
    \/ CheckTrains
    \/ Reserve
    \/ Notify
    \/ Respond

Spec == Init /\ [][Next]_vars

\* ------------------------------------------------------------------ claims
Contains(text, fragment) == \E i \in DOMAIN text : text[i] = fragment

Count(op) == Cardinality({ i \in DOMAIN calls : calls[i] = op })

ConfigMissing ==
    \/ env.KORAIL_USERNAME = None
    \/ env.KORAIL_PASSWORD = None
    \/ env.NOTIFICATION_PHONE = None

\* C1: a request handled while the provider username, the provider password
\* or the notification recipient is not configured ends in an internal-error
\* response, and no search, reserve or notification call is issued for it.
\* The handler never looks at the configuration: this is violated.
C1_ConfigFailureWithoutCalls ==
    (ConfigMissing /\ data # None) =>
        /\ calls = <<>>
        /\ (pc = "done" => response.outcome = "raised")

\* C2: a request whose passenger count is 0 or negative is rejected at
\* validation and no external call is issued for it.  ReserveRequest only
\* types the count: this is violated.
C2_NonPositivePassengersRejected ==
    (raw # None /\ raw[1].passengers.isint /\ raw[1].passengers.val <= 0) =>
        /\ response = Rejected
        /\ calls = <<>>

\* C3: when the search returns an empty candidate list, the handler returns
\* status "fail" with the no-available-train message, and neither reserve nor
\* the notification is ever called for that request.
C3_EmptySearchIsNotFound ==
    (trains # None /\ trains[1] = <<>>) =>
        /\ Count("reserve") = 0
        /\ Count("notify") = 0
        /\ response.outcome # "raised"
        /\ (pc = "done" =>
              /\ response.outcome = "returned"
              /\ response.body[1].status = "fail"
              /\ response.body[1].message = Some(NoTrainMessage)
              /\ response.body[1].train_no = None
              /\ response.body[1].seat_no = None)

C3_Witness ==
    /\ pc = "done"
    /\ trains = Some(<<>>)
    /\ calls = << "search" >>
    /\ response.outcome = "returned"

\* C4: when the search raises the provider's no-results error, the handler
\* returns the same not-found response as for an empty list (not a generic
\* failure), and calls neither reserve nor the notification.  The handler
\* catches nothing: this is violated.
C4_NoResultsErrorIsNotFound ==
    (pc = "done" /\ error = Some([at |-> "search", exc |-> "NoResultsError"])) =>
        /\ response.outcome = "returned"
        /\ response.body[1].status = "fail"
        /\ response.body[1].message = Some(NoTrainMessage)
        /\ Count("reserve") = 0
        /\ Count("notify") = 0

\* C5: when the search or the reserve call raises a provider exception other
\* than the no-results signal, the handler returns a structured failure
\* response carrying the provider's message, the exception does not leave the
\* handler, and no notification is sent.  The handler catches nothing: this
\* is violated.
C5_ProviderErrorIsFailureResponse ==
    (/\ pc = "done"
     /\ error # None
     /\ error[1].at \in {"search", "reserve"}
     /\ error[1].exc # "NoResultsError") =>
        /\ response.outcome = "returned"
        /\ response.body[1].status = "fail"
        /\ response.body[1].message = Some(error[1].exc)
        /\ Count("notify") = 0

\* C6: when the search returned a candidate and reserve succeeded with seat
\* S, the handler returns status "success" with exactly S's train number,
\* seat number, car number, departure time and arrival time, and the
\* notification was invoked exactly once, with a text that contains S's train
\* number and S's seat number.
C6_SuccessCarriesSeat ==
    (pc = "done" /\ seat # None) =>
        /\ response.outcome = "returned"
        /\ response.body[1].status = "success"
        /\ response.body[1].train_no = Some(seat[1].train_no)
        /\ response.body[1].seat_no = seat[1].seat_no
        /\ response.body[1].car_no = Some(seat[1].car_no)
        /\ response.body[1].dep_time = Some(seat[1].dep_time)
        /\ response.body[1].arr_time = Some(seat[1].arr_time)
        /\ Count("notify") = 1
        /\ sms_text # None
        /\ Contains(sms_text[1], seat[1].train_no)
        /\ (seat[1].seat_no # None => Contains(sms_text[1], seat[1].seat_no[1]))

C6_Witness ==
    /\ pc = "done"
    /\ seat # None
    /\ seat[1].seat_no = Some("5A")
    /\ trains # None /\ Len(trains[1]) >= 1
    /\ response.outcome = "returned"
    /\ Count("notify") = 1

\* C7: once reserve has succeeded and the notification has been attempted,
\* no exception leaves the handler and the request ends in status "success"
\* with the reserved seat, whether the gateway delivered or raised.
C7_NotificationFailureNonFatal ==
    (seat # None /\ sms_result # None) =>
        /\ sms_result[1].raised = None
        /\ error = None
        /\ pc \in {"respond", "done"}
        /\ response.outcome # "raised"
        /\ (pc = "done" =>
              /\ response.outcome = "returned"
              /\ response.body[1].status = "success"
              /\ response.body[1].seat_no = seat[1].seat_no
              /\ response.body[1].train_no = Some(seat[1].train_no))

C7_Witness ==
    /\ pc = "done"
    /\ seat # None
    /\ gw # None
    /\ gw[1].kind = "send_raises"
    /\ gw[1].exc = "ValidationError"
    /\ response.outcome = "returned"
    /\ response.body[1].status = "success"

\* C8: within one request the external calls are a prefix of search,
\* reserve, notification: each at most once and in that order, reserve only
\* after a search that returned a candidate, the notification only after a
\* reserve that returned a seat, and nothing is called again after a call
\* has raised.
C8_SingleAttemptInOrder ==
    /\ calls \in { <<>>, << "search" >>, << "search", "reserve" >>,
                   << "search", "reserve", "notify" >> }
    /\ (Count("reserve") > 0 => trains # None /\ Len(trains[1]) >= 1)
    /\ (Count("notify") > 0 => seat # None)
    /\ (error # None =>
          /\ pc = "done"
          /\ (error[1].at # "korail" => calls[Len(calls)] = error[1].at)
          /\ (error[1].at = "korail" => calls = <<>>))

C8_Witness ==
    /\ pc = "done"
    /\ error # None
    /\ error[1].at = "reserve"
    /\ calls = << "search", "reserve" >>

\* C9: send_sms never raises: when the service constructor, the message
\* constructor or the send raises, it returns success = False with the error
\* text; when the send returns a receipt, it returns success = True.
C9_SendSmsNeverRaises ==
    (sms_result # None) =>
        /\ sms_result[1].raised = None
        /\ sms_result[1].value # None
        /\ (gw[1].kind = "receipt" =>
              /\ sms_result[1].value[1].success = TRUE
              /\ sms_result[1].value[1].error = None)
        /\ (gw[1].kind # "receipt" =>
              /\ sms_result[1].value[1].success = FALSE
              /\ sms_result[1].value[1].error = Some(gw[1].exc))

C9_Witness ==
    /\ sms_result # None
    /\ gw[1].kind = "init_raises"
    /\ sms_result[1].value # None
    /\ sms_result[1].value[1].success = FALSE

\* C10: when reserve returned a seat without a seat number, the confirmation
\* text handed to send_sms holds a placeholder where the seat number goes,
\* never the rendering of the null value, along with the route, the train
\* number and the departure time.  The f-string interpolates None as it is:
\* this is violated.
C10_SeatlessPlaceholder ==
    (seat # None /\ seat[1].seat_no = None /\ sms_text # None) =>
        /\ ~ Contains(sms_text[1], Str(None))
        /\ Contains(sms_text[1], data[1].dep)
        /\ Contains(sms_text[1], data[1].arr)
        /\ Contains(sms_text[1], seat[1].train_no)
        /\ Contains(sms_text[1], seat[1].dep_time)

====
